---- MODULE Spec2Model ----
(***************************************************************************)
(* Databricks job monitoring dashboard (src/app.py, src/utils/sidebar.py,  *)
(* src/config.py).                                                         *)
(*                                                                         *)
(* Six specifications share the variables of this module:                  *)
(*   SpecClassify  the status classifier get_status_info, applied to every *)
(*                 (lifecycle state, result state) pair;                   *)
(*   SpecDuration  calculate_duration, applied to pairs of optional        *)
(*                 millisecond endpoints;                                  *)
(*   SpecControls  the cancel control of a job card, derived from every    *)
(*                 run list;                                               *)
(*   SpecCredentials  the credential lookup of init_databricks_client, on  *)
(*                 every content of the secrets store and the environment; *)
(*   SpecRecords   a render pass over every list of records config.yaml    *)
(*                 can hold, records without a job_id included;            *)
(*   Spec          a Streamlit session: render passes of main(), the       *)
(*                 sidebar's refresh logic and the job-card loop.          *)
(*                                                                         *)
(* Python's None is the string "None" for enum-valued fields and the empty *)
(* sequence for optional integers (<<v>> is the present value v).          *)
(***************************************************************************)
EXTENDS Integers, Sequences, FiniteSets, TLC

VARIABLES
    \* get_status_info: arguments and returned tuple
    state, result_state, status,
    \* calculate_duration: arguments and returned string
    start_ms, end_ms, duration,
    \* st.session_state
    auto_refresh, refresh_interval, last_refresh,
    \* time.time(), in seconds
    now,
    \* position of the script run and what started it
    pc, rerun, event,
    \* config.yaml, the list main() loaded, the job loop's position
    config, jobs, idx,
    \* locals of render_sidebar and display_job_card
    elapsed, runs, card,
    \* calls made to client.jobs.get in this pass, and the rendered elements
    fetched, out,
    \* st.secrets, os.environ, and what init_databricks_client returned
    secrets, environ, client

classVars == <<state, result_state, status>>
durVars   == <<start_ms, end_ms, duration>>
sessVars  == <<auto_refresh, refresh_interval, last_refresh>>
passVars  == <<now, pc, rerun, event, config, jobs, idx, elapsed, runs, card,
               fetched, out>>
credVars  == <<secrets, environ, client>>
vars      == <<state, result_state, status, start_ms, end_ms, duration,
               auto_refresh, refresh_interval, last_refresh, now, pc, rerun,
               event, config, jobs, idx, elapsed, runs, card, fetched, out,
               secrets, environ, client>>

None == "None"

(***************************************************************************)
(* src/config.py                                                           *)
(***************************************************************************)
STATUS_SUCCESS  == "#10B981"
STATUS_FAILED   == "#EF4444"
STATUS_RUNNING  == "#3B82F6"
STATUS_CANCELED == "#8B5CF6"
STATUS_TIMEOUT  == "#EC4899"
STATUS_WARNING  == "#F59E0B"
STATUS_NEUTRAL  == "#6B7280"
DEFAULT_REFRESH_INTERVAL == 30

(***************************************************************************)
(* The SDK enums imported at src/app.py:14.  The members the code names    *)
(* are RUNNING, PENDING, TERMINATING, TERMINATED, SKIPPED, INTERNAL_ERROR  *)
(* and SUCCESS, FAILED, CANCELED, TIMEDOUT; the others reach only the      *)
(* else branches.  A field the backend left out, or sent with a value the  *)
(* SDK does not know, is None.                                             *)
(***************************************************************************)
RunLifeCycleState ==
    {"BLOCKED", "INTERNAL_ERROR", "PENDING", "QUEUED", "RUNNING", "SKIPPED",
     "TERMINATED", "TERMINATING", "WAITING_FOR_RETRY"}

RunResultState ==
    {"SUCCESS", "FAILED", "CANCELED", "TIMEDOUT", "SUCCESS_WITH_FAILURES"}

\* str(state) of a plain Enum member, and str(None)
StateStr(s) == IF s = None THEN "None" ELSE "RunLifeCycleState." \o s

Tuple(icon, color, label, css) ==
    [icon |-> icon, color |-> color, label |-> label, css_class |-> css]

\* the fallback branch loses the state string
get_status_info_empty(s, r) ==
    IF s = "RUNNING" \/ s = "PENDING"
    THEN Tuple("blue", STATUS_RUNNING, "RUNNING", "status-running")
    ELSE IF s = "TERMINATING"
    THEN Tuple("warn", STATUS_WARNING, "TERMINATING", "status-warning")
    ELSE IF s = "TERMINATED"
    THEN IF r = "SUCCESS"
         THEN Tuple("check", STATUS_SUCCESS, "SUCCESS", "status-success")
         ELSE IF r = "FAILED"
         THEN Tuple("cross", STATUS_FAILED, "FAILED", "status-failed")
         ELSE IF r = "CANCELED"
         THEN Tuple("stop", STATUS_CANCELED, "CANCELED", "status-canceled")
         ELSE IF r = "TIMEDOUT"
         THEN Tuple("clock", STATUS_TIMEOUT, "TIMEOUT", "status-timeout")
         ELSE Tuple("white", STATUS_NEUTRAL, "TERMINATED", "status-neutral")
    ELSE IF s = "SKIPPED"
    THEN Tuple("skip", STATUS_WARNING, "SKIPPED", "status-warning")
    ELSE IF s = "INTERNAL_ERROR"
    THEN Tuple("warn", STATUS_FAILED, "ERROR", "status-failed")
    ELSE Tuple("white", STATUS_NEUTRAL, "", "status-neutral")

\* the TIMEDOUT branch is missing: a timed-out run falls to the default
get_status_info_notimeout(s, r) ==
    IF s = "RUNNING" \/ s = "PENDING"
    THEN Tuple("blue", STATUS_RUNNING, "RUNNING", "status-running")
    ELSE IF s = "TERMINATING"
    THEN Tuple("warn", STATUS_WARNING, "TERMINATING", "status-warning")
    ELSE IF s = "TERMINATED"
    THEN IF r = "SUCCESS"
         THEN Tuple("check", STATUS_SUCCESS, "SUCCESS", "status-success")
         ELSE IF r = "FAILED"
         THEN Tuple("cross", STATUS_FAILED, "FAILED", "status-failed")
         ELSE IF r = "CANCELED"
         THEN Tuple("stop", STATUS_CANCELED, "CANCELED", "status-canceled")
         ELSE Tuple("white", STATUS_NEUTRAL, "TERMINATED", "status-neutral")
    ELSE IF s = "SKIPPED"
    THEN Tuple("skip", STATUS_WARNING, "SKIPPED", "status-warning")
    ELSE IF s = "INTERNAL_ERROR"
    THEN Tuple("warn", STATUS_FAILED, "ERROR", "status-failed")
    ELSE Tuple("white", STATUS_NEUTRAL, StateStr(s), "status-neutral")

\* PENDING has a branch of its own
get_status_info_pending(s, r) ==
    IF s = "RUNNING"
    THEN Tuple("blue", STATUS_RUNNING, "RUNNING", "status-running")
    ELSE IF s = "PENDING"
    THEN Tuple("warn", STATUS_WARNING, "PENDING", "status-warning")
    ELSE IF s = "TERMINATING"
    THEN Tuple("warn", STATUS_WARNING, "TERMINATING", "status-warning")
    ELSE IF s = "TERMINATED"
    THEN IF r = "SUCCESS"
         THEN Tuple("check", STATUS_SUCCESS, "SUCCESS", "status-success")
         ELSE IF r = "FAILED"
         THEN Tuple("cross", STATUS_FAILED, "FAILED", "status-failed")
         ELSE IF r = "CANCELED"
         THEN Tuple("stop", STATUS_CANCELED, "CANCELED", "status-canceled")
         ELSE IF r = "TIMEDOUT"
         THEN Tuple("clock", STATUS_TIMEOUT, "TIMEOUT", "status-timeout")
         ELSE Tuple("white", STATUS_NEUTRAL, "TERMINATED", "status-neutral")
    ELSE IF s = "SKIPPED"
    THEN Tuple("skip", STATUS_WARNING, "SKIPPED", "status-warning")
    ELSE IF s = "INTERNAL_ERROR"
    THEN Tuple("warn", STATUS_FAILED, "ERROR", "status-failed")
    ELSE Tuple("white", STATUS_NEUTRAL, StateStr(s), "status-neutral")

get_status_info(s, r) ==
    IF s = "RUNNING" \/ s = "PENDING"
    THEN Tuple("blue", STATUS_RUNNING, "RUNNING", "status-running")
    ELSE IF s = "TERMINATING"
    THEN Tuple("warn", STATUS_WARNING, "TERMINATING", "status-warning")
    ELSE IF s = "TERMINATED"
    THEN IF r = "SUCCESS"
         THEN Tuple("check", STATUS_SUCCESS, "SUCCESS", "status-success")
         ELSE IF r = "FAILED"
         THEN Tuple("cross", STATUS_FAILED, "FAILED", "status-failed")
         ELSE IF r = "CANCELED"
         THEN Tuple("stop", STATUS_CANCELED, "CANCELED", "status-canceled")
         ELSE IF r = "TIMEDOUT"
         THEN Tuple("clock", STATUS_TIMEOUT, "TIMEOUT", "status-timeout")
         ELSE Tuple("white", STATUS_NEUTRAL, "TERMINATED", "status-neutral")
    ELSE IF s = "SKIPPED"
    THEN Tuple("skip", STATUS_WARNING, "SKIPPED", "status-warning")
    ELSE IF s = "INTERNAL_ERROR"
    THEN Tuple("warn", STATUS_FAILED, "ERROR", "status-failed")
    ELSE Tuple("white", STATUS_NEUTRAL, StateStr(s), "status-neutral")

(***************************************************************************)
(* calculate_duration, src/app.py:160-172.  The duration is kept in        *)
(* milliseconds: duration_sec = d / 1000 is a float whose comparisons and  *)
(* int() conversions agree with the exact quotients of d.                  *)
(***************************************************************************)
\* Python truthiness of an optional integer: None and 0 are both false
Truthy(x) == x # <<>> /\ x[1] # 0

\* int(n / d) for d > 0: truncation toward zero
PyInt(n, d) == IF n >= 0 THEN n \div d ELSE -((-n) \div d)

calculate_duration(s, e) ==
    IF Truthy(s) /\ Truthy(e)
    THEN LET d == e[1] - s[1]
         IN  IF d < 60000
             THEN ToString(PyInt(d, 1000)) \o "s"
             ELSE IF d < 3600000
             THEN ToString(PyInt(d, 60000)) \o "m "
                      \o ToString(PyInt(d % 60000, 1000)) \o "s"
             ELSE ToString(PyInt(d, 3600000)) \o "h "
                      \o ToString(PyInt(d % 3600000, 60000)) \o "m"
    ELSE "N/A"

(***************************************************************************)
(* Values of the session's variables while only a pure function is         *)
(* exercised, and of the pure functions' variables during a session.       *)
(***************************************************************************)
NoEvent == [kind |-> "none", job |-> 0, arg |-> 0]

PassOff ==
    /\ auto_refresh = FALSE
    /\ refresh_interval = DEFAULT_REFRESH_INTERVAL
    /\ last_refresh = 0
    /\ now = 0
    /\ pc = "off"
    /\ rerun = "none"
    /\ event = NoEvent
    /\ config = [ok |-> FALSE, jobs |-> <<>>]
    /\ jobs = <<>>
    /\ idx = 0
    /\ elapsed = <<>>
    /\ fetched = <<>>
    /\ out = <<>>

ControlsOff == runs = <<>> /\ card = <<>>

CredentialsOff == secrets = <<>> /\ environ = <<>> /\ client = <<>>

SessionOff == PassOff /\ ControlsOff /\ CredentialsOff

ClassifyOff == state = None /\ result_state = None /\ status = <<>>

DurationOff == start_ms = <<>> /\ end_ms = <<>> /\ duration = <<>>

(***************************************************************************)
(* SpecClassify: one call of get_status_info on each pair of arguments.    *)
(***************************************************************************)
InitClassify ==
    /\ state \in RunLifeCycleState \cup {None}
    /\ result_state \in RunResultState \cup {None}
    /\ status = <<>>
    /\ DurationOff
    /\ SessionOff

Classify ==
    /\ status = <<>>
    /\ status' = <<get_status_info(state, result_state)>>
    /\ UNCHANGED <<state, result_state, durVars, sessVars, passVars, credVars>>

NextClassify == Classify

SpecClassify == InitClassify /\ [][NextClassify]_vars

(***************************************************************************)
(* SpecDuration: one call of calculate_duration on each pair of optional   *)
(* endpoints.  The endpoints are epoch milliseconds h:m:s.f with the       *)
(* minutes, seconds and milliseconds at and next to the branch limits.     *)
(***************************************************************************)
MaxHours == 1

MsValues ==
    {h * 3600000 + m * 60000 + s * 1000 + f :
        h \in 0..MaxHours, m \in {0, 2, 59}, s \in {0, 5, 45, 59}, f \in {0, 999}}

OptionalMs == {<<>>} \cup {<<v>> : v \in MsValues}

InitDuration ==
    /\ start_ms \in OptionalMs
    /\ end_ms \in OptionalMs
    /\ duration = <<>>
    /\ ClassifyOff
    /\ SessionOff

CalcDuration ==
    /\ duration = <<>>
    /\ duration' = <<calculate_duration(start_ms, end_ms)>>
    /\ UNCHANGED <<start_ms, end_ms, classVars, sessVars, passVars, credVars>>

NextDuration == CalcDuration

SpecDuration == InitDuration /\ [][NextDuration]_vars

(***************************************************************************)
(* Spec: a Streamlit session.  The script runs top to bottom once per      *)
(* render pass (pc: "main" -> "client" -> "cards" -> "idle"); a pass is    *)
(* started by a widget interaction or by st.rerun(), which abandons the    *)
(* pass that calls it.  A widget reports the interaction that started the  *)
(* pass (event) when the script reads it, once.                            *)
(***************************************************************************)
MaxTime == 31
MaxLag == 1
MaxJobs == 2
MaxRuns == 2
MaxSliderPos == 3

SLIDER_MIN == 10
SLIDER_MAX == 300
SLIDER_STEP == 10

\* a slider whose lowest position is 0
SliderValues_frombelow ==
    {v \in 0..SLIDER_MAX :
        /\ v % SLIDER_STEP = 0
        /\ v <= SLIDER_MIN + (MaxSliderPos - 1) * SLIDER_STEP}

\* the positions of st.slider(min_value=10, max_value=300, step=10) in reach
SliderValues ==
    {v \in SLIDER_MIN..SLIDER_MAX :
        /\ (v - SLIDER_MIN) % SLIDER_STEP = 0
        /\ v <= SLIDER_MIN + (MaxSliderPos - 1) * SLIDER_STEP}

\* seconds that pass between two interactions
IdleAdvance == {SLIDER_STEP - 1, SLIDER_STEP}

\* the job ids of config.yaml's records, in order; the configured order is
\* not the order of the ids
JobLists == {[i \in 1..n |-> n + 1 - i] : n \in 0..MaxJobs}

\* config.yaml: readable with a list of jobs, or missing or malformed
Configs ==
    {[ok |-> TRUE, jobs |-> js] : js \in JobLists} \cup {[ok |-> FALSE, jobs |-> <<>>]}

\* what client.jobs.list_runs yields: newest run first, run ids falling
Run(id, lcs) == [run_id |-> id, life_cycle_state |-> lcs]

RunListsOver(S) ==
    UNION {{[i \in 1..n |-> Run(MaxRuns + 1 - i, ls[i])] : ls \in [1..n -> S]} :
              n \in 0..MaxRuns}

\* the run lists a session's backend answers with
SessionRunLists == RunListsOver({"RUNNING", "PENDING", "TERMINATED"})

Event(kind, job, arg) == [kind |-> kind, job |-> job, arg |-> arg]

\* a rendered element: a message, or a job card with its cancel control
Item(kind, job, show_cancel, key) ==
    [kind |-> kind, job |-> job, show_cancel |-> show_cancel, cancel_key |-> key]

Message(kind, job) == Item(kind, job, FALSE, 0)

Init ==
    /\ ClassifyOff
    /\ DurationOff
    /\ CredentialsOff
    /\ auto_refresh = FALSE
    /\ refresh_interval = DEFAULT_REFRESH_INTERVAL
    /\ now = 0
    /\ last_refresh = now
    /\ config \in Configs
    /\ pc = "main"
    /\ rerun = "none"
    /\ event = NoEvent
    /\ jobs = <<>>
    /\ idx = 0
    /\ elapsed = <<>>
    /\ runs = <<>>
    /\ card = <<>>
    /\ fetched = <<>>
    /\ out = <<>>

(***************************************************************************)
(* Interactions.  Each starts a render pass with the widget it touched.    *)
(***************************************************************************)
StartPass(e) ==
    /\ pc = "idle"
    /\ pc' = "main"
    /\ event' = e
    /\ rerun' = "none"
    /\ jobs' = <<>>
    /\ idx' = 0
    /\ fetched' = <<>>
    /\ out' = <<>>
    /\ UNCHANGED <<credVars, classVars, durVars,
                   sessVars, now, config, elapsed, runs, card>>

\* the "Refresh Now" button
ClickRefresh == StartPass(Event("refresh", 0, 0))

\* the "Enable Auto-Refresh" toggle
ClickToggle == StartPass(Event("toggle", 0, 0))

\* the interval slider, rendered while auto-refresh is on
MoveSlider ==
    /\ auto_refresh
    /\ \E v \in SliderValues \ {refresh_interval} : StartPass(Event("slider", 0, v))

\* the "Trigger" button of a rendered card
ClickTrigger ==
    \E i \in DOMAIN out :
        /\ out[i].kind = "card"
        /\ StartPass(Event("trigger", out[i].job, 0))

\* the "Cancel" button of a rendered card that shows one
ClickCancel ==
    \E i \in DOMAIN out :
        /\ out[i].kind = "card"
        /\ out[i].show_cancel
        /\ StartPass(Event("cancel", out[i].job, out[i].cancel_key))

\* any other interaction (the job radio, an expander)
Interact == StartPass(NoEvent)

\* time passes between two interactions
Tick ==
    /\ pc = "idle"
    /\ \E d \in IdleAdvance : now + d <= MaxTime /\ now' = now + d
    /\ UNCHANGED <<credVars, classVars, durVars,
                   sessVars, pc, rerun, event, config, jobs,
                   idx, elapsed, runs, card, fetched, out>>

(***************************************************************************)
(* main() up to the end of render_sidebar: src/app.py:295-298 and          *)
(* src/utils/sidebar.py:72-129.                                            *)
(***************************************************************************)
Lags == 0..MaxLag

\* sidebar.py:110 and :127
FiresAuto_unguarded(auto, el, interval) == el >= interval

FiresAuto_strict(auto, el, interval) == auto /\ el > interval

FiresAuto(auto, el, interval) == auto /\ el >= interval

\* sidebar.py:128: last_refresh after the auto-refresh logic, t = time.time()
SidebarLastRefresh_always(fires, t) == t

SidebarLastRefresh_never(fires, t) == last_refresh

SidebarLastRefresh(fires, t) == IF fires THEN t ELSE last_refresh

\* sidebar.py:81: last_refresh after "Refresh Now", t = time.time()
ManualLastRefresh_keep(t) == last_refresh

ManualLastRefresh(t) == t

\* st.rerun(): the pass is abandoned and the script starts again
Rerun(why) ==
    /\ pc' = "main"
    /\ rerun' = why
    /\ event' = NoEvent
    /\ jobs' = <<>>
    /\ idx' = 0
    /\ card' = <<>>
    /\ fetched' = <<>>
    /\ out' = <<>>

RenderSidebar ==
    /\ pc = "main"
    /\ IF event.kind = "refresh"
       THEN \* sidebar.py:80-82
            \E l \in Lags :
                /\ now + l <= MaxTime
                /\ last_refresh' = ManualLastRefresh(now)
                /\ now' = now + l
                /\ Rerun("manual")
                /\ elapsed' = <<>>
                /\ UNCHANGED <<auto_refresh, refresh_interval>>
       ELSE LET toggle == IF event.kind = "toggle"
                          THEN ~auto_refresh ELSE auto_refresh
                slider == IF event.kind = "slider"
                          THEN event.arg ELSE refresh_interval
                interval == IF toggle THEN slider ELSE refresh_interval
                el == now - last_refresh
                fires == FiresAuto(toggle, el, interval)
            IN  /\ auto_refresh' = toggle
                /\ refresh_interval' = interval
                /\ elapsed' = IF toggle THEN <<el>> ELSE <<>>
                /\ IF fires
                   THEN \* sidebar.py:128-129; g passes before time.time() is
                        \* read again, l before the next pass reads it
                        \E g \in Lags, l \in Lags :
                            /\ g + l <= MaxLag
                            /\ now + g + l <= MaxTime
                            /\ last_refresh' = SidebarLastRefresh(fires, now + g)
                            /\ now' = now + g + l
                            /\ Rerun("auto")
                   ELSE \* the pass goes on with what load_config returned
                        /\ last_refresh' = SidebarLastRefresh(fires, now)
                        /\ pc' = "client"
                        /\ jobs' = config.jobs
                        /\ out' = IF config.ok THEN <<>>
                                  ELSE <<Message("config_error", 0)>>
                        /\ event' = IF event.kind \in {"toggle", "slider"}
                                    THEN NoEvent ELSE event
                        /\ UNCHANGED <<now, rerun, idx, card, fetched>>
    /\ UNCHANGED <<credVars, classVars, durVars, config, runs>>

(***************************************************************************)
(* main(), src/app.py:305-327: the client and the empty-state returns      *)
(***************************************************************************)
Return ==
    /\ pc' = "idle"
    /\ event' = NoEvent
    /\ elapsed' = <<>>
    /\ card' = <<>>
    /\ idx' = 0

InitClient ==
    /\ pc = "client"
    /\ \E obtained \in BOOLEAN :
          IF ~obtained
          THEN /\ out' = Append(out, Message("no_client", 0))
               /\ Return
          ELSE IF jobs = <<>>
          THEN /\ out' = Append(out, Message("no_jobs", 0))
               /\ Return
          ELSE /\ pc' = "cards"
               /\ idx' = 1
               /\ UNCHANGED <<event, elapsed, card, out>>
    /\ UNCHANGED <<credVars, classVars, durVars,
                   sessVars, now, rerun, config, jobs, runs,
                   fetched>>

(***************************************************************************)
(* display_job_card, src/app.py:175-289, called by the loop at :375-376    *)
(***************************************************************************)
Cancellable == {"RUNNING", "PENDING"}

\* app.py:211-215
ShowCancel_any(rs) ==
    \E i \in DOMAIN rs : rs[i].life_cycle_state \in Cancellable

ShowCancel(rs) ==
    Len(rs) > 0 /\ rs[1].life_cycle_state \in Cancellable

\* app.py:249-251: runs[0].run_id
CancelTarget(rs) == rs[1].run_id

\* the card's cancel control: whether it is shown and the run it cancels
Controls(job_id, rs) ==
    [job |-> job_id,
     show_cancel |-> ShowCancel(rs),
     cancel_key |-> IF ShowCancel(rs) THEN CancelTarget(rs) ELSE 0]

\* app.py:182-183 and :375: the loop goes on after a failed get_job
AfterFailedFetch_abort(i) == Len(jobs) + 1

AfterFailedFetch(i) == i + 1

\* app.py:375: for job_config in jobs
JobAt_reversed(i) == jobs[Len(jobs) + 1 - i]

JobAt(i) == jobs[i]

\* what get_job_runs returns: the list, or [] after an error message
RunsResults == {<<TRUE, rs>> : rs \in SessionRunLists} \cup {<<FALSE, <<>>>>}

\* the outcomes of get_job_runs as the card sees them
CardResults(job_id) == {<<res[1], Controls(job_id, res[2])>> : res \in RunsResults}

\* app.py:110 and :120: what a card shows when the call its pressed button
\* made has failed
ClickMessages_silent(trigger, cancel, job_id) == <<>>

ClickMessages(trigger, cancel, job_id) ==
    IF trigger THEN <<Message("trigger_error", job_id)>>
    ELSE IF cancel THEN <<Message("cancel_error", job_id)>>
    ELSE <<>>

DisplayJobCard ==
    /\ pc = "cards"
    /\ idx <= Len(jobs)
    /\ LET job_id == JobAt(idx)
       IN  \/ \* app.py:181-183: get_job failed
              /\ fetched' = Append(fetched, [job |-> job_id, ok |-> FALSE])
              /\ out' = Append(out, Message("job_error", job_id))
              /\ idx' = AfterFailedFetch(idx)
              /\ card' = <<>>
              /\ UNCHANGED <<now, pc, rerun, event>>
           \/ \E res \in CardResults(job_id) :
                LET c == res[2]
                    trigger == event.kind = "trigger" /\ event.job = job_id
                    cancel == /\ c.show_cancel
                              /\ event.kind = "cancel"
                              /\ event.job = job_id
                              /\ event.arg = c.cancel_key
                IN  \/ \* app.py:243-245 and :252-254: the call succeeded;
                       \* sleep(1), rerun
                       /\ trigger \/ cancel
                       /\ now + 1 <= MaxTime
                       /\ now' = now + 1
                       /\ Rerun(IF trigger THEN "trigger" ELSE "cancel")
                    \/ \* no click on this card, or the call failed
                       /\ fetched' = Append(fetched, [job |-> job_id, ok |-> TRUE])
                       /\ out' = out
                            \o (IF res[1] THEN <<>>
                                ELSE <<Message("runs_error", job_id)>>)
                            \o <<Item("card", job_id, c.show_cancel, c.cancel_key)>>
                            \o ClickMessages(trigger, cancel, job_id)
                       /\ idx' = idx + 1
                       /\ card' = <<c>>
                       /\ event' = IF trigger \/ cancel THEN NoEvent ELSE event
                       /\ UNCHANGED <<now, pc, rerun>>
    /\ UNCHANGED <<credVars, classVars, durVars,
                   sessVars, config, jobs, elapsed, runs>>

\* app.py:378-380: the loop is over and the script ends
EndPass ==
    /\ pc = "cards"
    /\ idx > Len(jobs)
    /\ Return
    /\ UNCHANGED <<credVars, classVars, durVars,
                   sessVars, now, rerun, config, jobs, runs,
                   fetched, out>>

Next ==
    \/ ClickRefresh
    \/ ClickToggle
    \/ MoveSlider
    \/ ClickTrigger
    \/ ClickCancel
    \/ Interact
    \/ Tick
    \/ RenderSidebar
    \/ InitClient
    \/ DisplayJobCard
    \/ EndPass

Spec == Init /\ [][Next]_vars

(***************************************************************************)
(* SpecControls: the cancel control of one card (src/app.py:210-221 and    *)
(* :247-254), derived from each run list list_runs can yield.              *)
(***************************************************************************)
AnyRunLists == RunListsOver(RunLifeCycleState \cup {None})

InitControls ==
    /\ runs \in AnyRunLists
    /\ card = <<>>
    /\ ClassifyOff
    /\ DurationOff
    /\ PassOff
    /\ CredentialsOff

RenderControls ==
    /\ card = <<>>
    /\ card' = <<Controls(1, runs)>>
    /\ UNCHANGED <<credVars, classVars, durVars,
                   sessVars, now, pc, rerun, event, config,
                   jobs, idx, elapsed, runs, fetched, out>>

NextControls == RenderControls

SpecControls == InitControls /\ [][NextControls]_vars

(***************************************************************************)
(* SpecCredentials: one call of init_databricks_client, src/app.py:61-81,  *)
(* on each content of the secrets store and of the environment.  A value   *)
(* is None (not set), the empty string, or a non-empty string.             *)
(* st.secrets.get raises when there is no secrets file and returns None    *)
(* for a key the file does not hold.                                       *)
(***************************************************************************)
CredValues(v) == {None, "", v}

SecretStores ==
    {[found |-> FALSE, host |-> None, token |-> None]}
        \cup {[found |-> TRUE, host |-> h, token |-> t] :
                 h \in CredValues("secrets-host"), t \in CredValues("secrets-token")}

Environments ==
    [host : CredValues("env-host"), token : CredValues("env-token")]

\* `not x` is false for a non-empty string only
NonEmpty(x) == x # None /\ x # ""

\* app.py:65-70: the environment is read in the except branch only
LookedUp(sec, env) ==
    IF sec.found
    THEN [host |-> sec.host, token |-> sec.token]
    ELSE [host |-> env.host, token |-> env.token]

\* built: WorkspaceClient(host=host, token=token) returned rather than raised
init_databricks_client(sec, env, built) ==
    LET got == LookedUp(sec, env)
    IN  IF ~NonEmpty(got.host) \/ ~NonEmpty(got.token)
        THEN [kind |-> "missing", host |-> None, token |-> None]
        ELSE IF built
        THEN [kind |-> "client", host |-> got.host, token |-> got.token]
        ELSE [kind |-> "failed", host |-> None, token |-> None]

InitCredentials ==
    /\ secrets \in SecretStores
    /\ environ \in Environments
    /\ client = <<>>
    /\ ClassifyOff
    /\ DurationOff
    /\ PassOff
    /\ ControlsOff

InitDatabricksClient ==
    /\ client = <<>>
    /\ \E built \in BOOLEAN :
          client' = <<init_databricks_client(secrets, environ, built)>>
    /\ UNCHANGED <<secrets, environ, classVars, durVars, sessVars, passVars>>

NextCredentials == InitDatabricksClient

SpecCredentials == InitCredentials /\ [][NextCredentials]_vars

(***************************************************************************)
(* SpecRecords: the first render pass of a session (no widget pressed,     *)
(* auto-refresh off) over each list of records load_config can return.     *)
(* yaml.safe_load gives a record the keys the file gives it: job_id and    *)
(* display_name are each present or not.  pc = "raised" is the script      *)
(* ended by an exception that no handler caught.                           *)
(***************************************************************************)
Records ==
    [job_id : {<<>>} \cup {<<i>> : i \in 1..MaxJobs},
     display_name : {<<>>, <<"ETL">>}]

RecordLists == UNION {[1..n -> Records] : n \in 0..MaxJobs}

RecordConfigs ==
    {[ok |-> TRUE, jobs |-> js] : js \in RecordLists}
        \cup {[ok |-> FALSE, jobs |-> <<>>]}

\* job['job_id'] (sidebar.py:89, app.py:177) raises KeyError without the key
RaisesKeyError(job) == job.job_id = <<>>

\* sidebar.py:89: [job.get('display_name', f"Job {job['job_id']}") for job
\* in jobs]; the default is evaluated for every record, before get is called
JobNamesRaise(js) == \E i \in DOMAIN js : RaisesKeyError(js[i])

InitRecords ==
    /\ ClassifyOff
    /\ DurationOff
    /\ CredentialsOff
    /\ auto_refresh = FALSE
    /\ refresh_interval = DEFAULT_REFRESH_INTERVAL
    /\ now = 0
    /\ last_refresh = now
    /\ config \in RecordConfigs
    /\ pc = "main"
    /\ rerun = "none"
    /\ event = NoEvent
    /\ jobs = <<>>
    /\ idx = 0
    /\ elapsed = <<>>
    /\ runs = <<>>
    /\ card = <<>>
    /\ fetched = <<>>
    /\ out = <<>>

\* app.py:295-298 and sidebar.py:78-129 with no button pressed and the
\* toggle off
SidebarRecords ==
    /\ pc = "main"
    /\ jobs' = config.jobs
    /\ out' = IF config.ok THEN <<>> ELSE <<Message("config_error", 0)>>
    /\ pc' = IF config.jobs # <<>> /\ JobNamesRaise(config.jobs)
             THEN "raised" ELSE "client"
    /\ UNCHANGED <<credVars, classVars, durVars, sessVars, now, rerun, event,
                   config, idx, elapsed, runs, card, fetched>>

\* display_job_card, app.py:175-289, with no button pressed
CardRecord ==
    /\ pc = "cards"
    /\ idx <= Len(jobs)
    /\ IF RaisesKeyError(jobs[idx])
       THEN \* app.py:177
            /\ pc' = "raised"
            /\ UNCHANGED <<idx, card, fetched, out>>
       ELSE LET job_id == jobs[idx].job_id[1]
            IN  /\ pc' = pc
                /\ \/ \* app.py:181-183: get_job failed
                      /\ fetched' = Append(fetched, [job |-> job_id, ok |-> FALSE])
                      /\ out' = Append(out, Message("job_error", job_id))
                      /\ idx' = AfterFailedFetch(idx)
                      /\ card' = <<>>
                   \/ \E res \in CardResults(job_id) :
                         /\ fetched' = Append(fetched, [job |-> job_id, ok |-> TRUE])
                         /\ out' = out
                              \o (IF res[1] THEN <<>>
                                  ELSE <<Message("runs_error", job_id)>>)
                              \o <<Item("card", job_id, res[2].show_cancel,
                                        res[2].cancel_key)>>
                         /\ idx' = idx + 1
                         /\ card' = <<res[2]>>
    /\ UNCHANGED <<credVars, classVars, durVars, sessVars, now, rerun, event,
                   config, jobs, elapsed, runs>>

NextRecords ==
    \/ SidebarRecords
    \/ InitClient
    \/ CardRecord
    \/ EndPass

SpecRecords == InitRecords /\ [][NextRecords]_vars

(***************************************************************************)
(* Properties of the status classifier (SpecClassify)                      *)
(***************************************************************************)
TupleFields == {"icon", "color", "label", "css_class"}

\* C1: for each of the nine lifecycle states, and for a state the SDK does
\* not know, with every result state or none, get_status_info returns a
\* tuple (icon, color, label, css_class) whose label is not empty.
ClassifierTotal ==
    status # <<>> =>
        /\ DOMAIN status[1] = TupleFields
        /\ status[1].label # ""
        /\ status[1].css_class # ""

\* an unrecognised lifecycle state with no result state has been classified
ClassifierTotalWitness ==
    /\ status # <<>>
    /\ state \notin {"RUNNING", "PENDING", "TERMINATING", "TERMINATED",
                     "SKIPPED", "INTERNAL_ERROR"}
    /\ result_state = None
    /\ status[1].label = StateStr(state)

\* the decision table of the claim, first match first
TableLabel(s, r) ==
    CASE s \in {"RUNNING", "PENDING"} -> "RUNNING"
      [] s = "TERMINATING" -> "TERMINATING"
      [] s = "TERMINATED" /\ r = "SUCCESS" -> "SUCCESS"
      [] s = "TERMINATED" /\ r = "FAILED" -> "FAILED"
      [] s = "TERMINATED" /\ r = "CANCELED" -> "CANCELED"
      [] s = "TERMINATED" /\ r = "TIMEDOUT" -> "TIMEOUT"
      [] s = "TERMINATED"
           /\ r \notin {"SUCCESS", "FAILED", "CANCELED", "TIMEDOUT"} -> "TERMINATED"
      [] s = "SKIPPED" -> "SKIPPED"
      [] s = "INTERNAL_ERROR" -> "ERROR"
      [] OTHER -> StateStr(s)

ClosedLabels ==
    {"RUNNING", "TERMINATING", "SUCCESS", "FAILED", "CANCELED", "TIMEOUT",
     "TERMINATED", "SKIPPED", "ERROR"}

\* C2: the label get_status_info returns is the one the decision table gives
\* for (state, result_state); it is one of the nine fixed labels or, for a
\* lifecycle state outside the table, str(state) with the neutral style.
DecisionTable ==
    status # <<>> =>
        /\ status[1].label = TableLabel(state, result_state)
        /\ status[1].label \in ClosedLabels \cup {StateStr(state)}
        /\ status[1].label \notin ClosedLabels =>
               /\ status[1].color = STATUS_NEUTRAL
               /\ status[1].css_class = "status-neutral"

\* a terminated run that timed out has been classified TIMEOUT
DecisionTableWitness ==
    /\ status # <<>>
    /\ state = "TERMINATED"
    /\ result_state = "TIMEDOUT"
    /\ status[1].label = "TIMEOUT"

(***************************************************************************)
(* Properties of calculate_duration (SpecDuration)                         *)
(***************************************************************************)
\* C9: calculate_duration returns "N/A" exactly when an endpoint is absent;
\* two present endpoints, the epoch value 0 included, give a rendered
\* duration.
DurationNAOnlyWhenAbsent ==
    duration # <<>> =>
        (duration[1] = "N/A" <=> (start_ms = <<>> \/ end_ms = <<>>))

\* the rendering the claim describes, every component floored
FloorRender(d) ==
    IF d < 60000
    THEN ToString(d \div 1000) \o "s"
    ELSE IF d < 3600000
    THEN ToString(d \div 60000) \o "m " \o ToString((d % 60000) \div 1000) \o "s"
    ELSE ToString(d \div 3600000) \o "h "
             \o ToString((d % 3600000) \div 60000) \o "m"

\* C10: for two present endpoints calculate_duration renders the floored
\* components of d = (end_ms - start_ms) / 1000: "{s}s" below a minute,
\* "{m}m {s}s" below an hour, "{h}h {m}m" from an hour on.
DurationFloored ==
    (duration # <<>> /\ start_ms # <<>> /\ end_ms # <<>>) =>
        duration[1] = FloorRender(end_ms[1] - start_ms[1])

(***************************************************************************)
(* Properties of the refresh logic (Spec)                                  *)
(***************************************************************************)
\* the step is render_sidebar calling st.rerun() from the auto-refresh logic
AutoFires == pc = "main" /\ pc' = "main" /\ rerun' = "auto"

\* the step is render_sidebar calling st.rerun() for "Refresh Now"
ManualFires == pc = "main" /\ pc' = "main" /\ rerun' = "manual"

\* C3: in a pass whose toggle reads false the auto-refresh logic neither
\* requests a rerun nor resets last_refresh, whatever the elapsed time and
\* the stored interval (only "Refresh Now" changes last_refresh then).
NoAutoRefreshWhenOff ==
    [][(pc = "main" /\ ~auto_refresh') =>
           /\ ~AutoFires
           /\ (last_refresh' # last_refresh => ManualFires)]_vars

\* a pass went past the sidebar with auto-refresh off although the interval
\* had elapsed
NoAutoRefreshWhenOffWitness ==
    /\ pc = "client"
    /\ ~auto_refresh
    /\ now - last_refresh >= refresh_interval

\* C4: in a pass whose toggle reads true (and in which "Refresh Now" was not
\* pressed) the auto-refresh fires if and only if
\* now - last_refresh >= interval, with now the time read for the comparison
\* and interval the slider's value in that pass.
AutoRefreshFiresIffDue ==
    [][(pc = "main" /\ event.kind # "refresh" /\ auto_refresh') =>
           (AutoFires <=> now - last_refresh >= refresh_interval')]_vars

\* with interval 30 the refresh fired exactly 30 s after last_refresh
AutoRefreshFiresIffDueWitness ==
    /\ pc = "main"
    /\ rerun = "auto"
    /\ refresh_interval = 30
    /\ elapsed = <<30>>

\* C5 as stated: a firing auto-refresh sets last_refresh to the very time that
\* was compared against the interval, and no step other than a firing
\* auto-refresh or a manual refresh changes last_refresh.
FireResetsToComparedTime ==
    [][/\ AutoFires => last_refresh' = now
       /\ last_refresh' # last_refresh => (AutoFires \/ ManualFires)]_vars

\* C5, amended: a firing auto-refresh sets last_refresh to a second reading of
\* the clock, taken at or after the reading that was compared against the
\* interval and before the next pass starts; no step other than a firing
\* auto-refresh or a manual refresh changes last_refresh.
FireResetsToFireTime ==
    [][/\ AutoFires => (now <= last_refresh' /\ last_refresh' <= now')
       /\ last_refresh' # last_refresh => (AutoFires \/ ManualFires)]_vars

\* an auto-refresh has just fired and reset the timer
FireResetsToFireTimeWitness ==
    /\ pc = "main"
    /\ rerun = "auto"
    /\ elapsed # <<>>
    /\ elapsed[1] >= refresh_interval
    /\ last_refresh > 0
    /\ now - last_refresh <= MaxLag

(***************************************************************************)
(* Properties of the job loop (Spec)                                       *)
(***************************************************************************)
FetchedJobs == [i \in DOMAIN fetched |-> fetched[i].job]

HasMessage(kind) == \E i \in DOMAIN out : out[i].kind = kind

\* the pass that a refresh started has ended
RepollEnded == pc = "idle" /\ rerun \in {"auto", "manual"}

\* the pass that a refresh started is running
Repolling == pc \in {"main", "client", "cards"} /\ rerun \in {"auto", "manual"}

JobItems == SelectSeq(out, LAMBDA it : it.kind \in {"card", "job_error"})

\* C7: the page holds, for the jobs fetched so far and in configured order, a
\* card for each job whose get_job succeeded and an error for each whose
\* get_job failed; a pass that ends after reaching the loop has fetched every
\* configured job.
FailuresIsolatedInOrder ==
    /\ Len(JobItems) = Len(fetched)
    /\ Len(fetched) <= Len(jobs)
    /\ \A i \in DOMAIN fetched :
          /\ fetched[i].job = jobs[i]
          /\ JobItems[i].job = jobs[i]
          /\ JobItems[i].kind = IF fetched[i].ok THEN "card" ELSE "job_error"
    /\ (pc = "idle" /\ ~HasMessage("no_client"))
           => (jobs = config.jobs /\ Len(fetched) = Len(jobs))

\* a pass has ended with an error for the first job and a card for the second
FailuresIsolatedInOrderWitness ==
    /\ pc = "idle"
    /\ Len(jobs) = 2
    /\ Len(JobItems) = 2
    /\ JobItems[1].kind = "job_error"
    /\ JobItems[2].kind = "card"
    /\ JobItems[1].job = jobs[1]
    /\ JobItems[2].job = jobs[2]

(***************************************************************************)
(* Properties of the cancel control (SpecControls)                         *)
(***************************************************************************)
\* C8: the card shows the cancel control exactly when the run list is not
\* empty and its first run is RUNNING or PENDING, whatever the states of the
\* runs after it, and the control then targets the first run's id.
ShowCancelFromLatestRun ==
    card # <<>> =>
        /\ card[1].show_cancel
             <=> (runs # <<>> /\ runs[1].life_cycle_state \in {"RUNNING", "PENDING"})
        /\ card[1].show_cancel => card[1].cancel_key = runs[1].run_id
        /\ \A other \in AnyRunLists :
              (runs # <<>> /\ other # <<>> /\ other[1] = runs[1])
                  => ShowCancel(other) = card[1].show_cancel

\* an older run is RUNNING, the latest is not, and no cancel control is shown
ShowCancelFromLatestRunWitness ==
    /\ card # <<>>
    /\ Len(runs) >= 2
    /\ runs[1].life_cycle_state = "TERMINATED"
    /\ runs[2].life_cycle_state = "RUNNING"
    /\ ~card[1].show_cancel

(***************************************************************************)
(* Properties of error handling (SpecRecords)                              *)
(***************************************************************************)
\* C11: whatever records the loader yields and whichever of the loader, the
\* credential lookup, get_job and list_runs fail, the render pass never ends
\* with an uncaught exception: it ends with cards, inline errors or a banner.
RenderPassNeverRaises == pc # "raised"

(***************************************************************************)
(* Properties of the session's refresh settings (Spec)                     *)
(***************************************************************************)
\* C12: in every reachable state of a session, after any toggles, slider
\* moves, manual refreshes and render passes, the stored refresh interval is
\* an integer between 10 and 300.
IntervalInRange == refresh_interval \in SLIDER_MIN..SLIDER_MAX

\* the slider was moved to its lowest position while auto-refresh was on and
\* the toggle was switched off afterwards
IntervalInRangeWitness ==
    /\ pc = "idle"
    /\ ~auto_refresh
    /\ refresh_interval = SLIDER_MIN

\* C13: a pass in which "Refresh Now" was pressed sets last_refresh to the
\* current time and reruns the script, with auto-refresh on or off and
\* whatever time has elapsed, and leaves auto_refresh and the refresh
\* interval as they were.
ManualRefreshUnconditional ==
    [][(pc = "main" /\ event.kind = "refresh") =>
           /\ ManualFires
           /\ last_refresh' = now
           /\ auto_refresh' = auto_refresh
           /\ refresh_interval' = refresh_interval]_vars

\* "Refresh Now" has just reset the timer of a session whose auto-refresh is
\* on with an interval other than the default
ManualRefreshUnconditionalWitness ==
    /\ pc = "main"
    /\ rerun = "manual"
    /\ auto_refresh
    /\ refresh_interval # DEFAULT_REFRESH_INTERVAL
    /\ last_refresh > 0
    /\ now - last_refresh <= MaxLag

(***************************************************************************)
(* RUNNING and PENDING (SpecClassify)                                      *)
(***************************************************************************)
OtherActive(s) == IF s = "RUNNING" THEN "PENDING" ELSE "RUNNING"

\* C14: for every result state, none included, the tuple get_status_info
\* returns for RUNNING is the tuple it returns for PENDING.
RunningSameAsPending ==
    (status # <<>> /\ state \in {"RUNNING", "PENDING"}) =>
        status[1] = get_status_info(OtherActive(state), result_state)

\* a PENDING run with a result state has been classified as RUNNING
RunningSameAsPendingWitness ==
    /\ status # <<>>
    /\ state = "PENDING"
    /\ result_state = "FAILED"
    /\ status[1].label = "RUNNING"

(***************************************************************************)
(* Properties of the trigger and cancel buttons (Spec)                     *)
(***************************************************************************)
\* the script is at the card of the job whose button was pressed
AtClickedCard ==
    /\ pc = "cards"
    /\ idx <= Len(jobs)
    /\ event.kind \in {"trigger", "cancel"}
    /\ event.job = jobs[idx]

\* the card was not drawn: get_job failed and the button was never read
ClickedCardMissing ==
    /\ out' = Append(out, Message("job_error", jobs[idx]))
    /\ pc' = "cards"
    /\ event' = event

\* the card was drawn without the pressed cancel button
CancelButtonGone ==
    /\ event.kind = "cancel"
    /\ pc' = "cards"
    /\ card' # <<>>
    /\ ~(card'[1].show_cancel /\ card'[1].cancel_key = event.arg)
    /\ event' = event

\* run_now or cancel_run returned: the script is rerun
ClickSucceeded ==
    /\ pc' = "main"
    /\ rerun' = event.kind
    /\ event' = NoEvent

\* run_now or cancel_run raised: the card shows the error and the loop goes
\* on with the next card
ClickFailed ==
    /\ pc' = "cards"
    /\ rerun' = rerun
    /\ idx' = idx + 1
    /\ event' = NoEvent
    /\ out' # <<>>
    /\ out'[Len(out')] = Message(event.kind \o "_error", event.job)
    /\ \E i \in DOMAIN out' : out'[i].kind = "card" /\ out'[i].job = event.job

\* C15: a pressed trigger or cancel button makes one call and leaves nothing
\* pending: if the call returns the script is rerun; if it fails the card
\* shows an error, no rerun is requested and the remaining cards of the pass
\* are rendered; either way auto_refresh, the interval and last_refresh are
\* unchanged, and no click is left over when the pass has ended.
FireAndForget ==
    /\ [][AtClickedCard =>
              /\ UNCHANGED sessVars
              /\ \/ ClickSucceeded
                 \/ ClickFailed
                 \/ ClickedCardMissing
                 \/ CancelButtonGone]_vars
    /\ []((pc = "idle" /\ (HasMessage("trigger_error") \/ HasMessage("cancel_error")))
              => Len(fetched) = Len(jobs))
    /\ [](pc = "idle" => event = NoEvent)

\* a pass has ended in which triggering the first job failed and the card of
\* the second job was rendered after the error
FireAndForgetWitness ==
    /\ pc = "idle"
    /\ Len(jobs) = 2
    /\ \E i, j \in DOMAIN out :
          /\ i < j
          /\ out[i] = Message("trigger_error", jobs[1])
          /\ out[j].kind = "card"
          /\ out[j].job = jobs[2]

\* C16: when a pass that a trigger click started finds the auto-refresh due
\* in render_sidebar, the click is still there after the sidebar, so that the
\* card of the clicked job issues run_now in that same pass.
TriggerSurvivesDueRefresh ==
    [][(/\ pc = "main"
        /\ event.kind = "trigger"
        /\ auto_refresh
        /\ now - last_refresh >= refresh_interval)
           => (pc' = "client" /\ event' = event)]_vars

(***************************************************************************)
(* Properties of the credential lookup (SpecCredentials)                   *)
(***************************************************************************)
SecretsComplete ==
    secrets.found /\ NonEmpty(secrets.host) /\ NonEmpty(secrets.token)

EnvComplete == NonEmpty(environ.host) /\ NonEmpty(environ.token)

\* the client, if one was built, was given this host and token
BuiltFrom(src) ==
    client[1].kind = "client" =>
        (client[1].host = src.host /\ client[1].token = src.token)

\* C17: if the secrets store holds both values the client is built from
\* them; otherwise, whenever the environment holds both values, it is built
\* from those; the missing-credentials error is reported only when neither
\* source holds a complete (host, token) pair.
CredentialsFirstAvailable ==
    client # <<>> =>
        /\ SecretsComplete => BuiltFrom(secrets)
        /\ (~SecretsComplete /\ EnvComplete) => BuiltFrom(environ)
        /\ client[1].kind = "missing" => (~SecretsComplete /\ ~EnvComplete)

(***************************************************************************)
(* No refresh storm (Spec)                                                 *)
(***************************************************************************)
\* C18: with the interval between 10 and 300 and less than an interval of
\* time passing from a firing auto-refresh to the pass it starts, that pass
\* does not fire again; and whenever an auto-refresh fires, a full interval
\* has passed since last_refresh, the time of the fire or manual refresh
\* before it (or the start of the session).
NoRefreshStorm ==
    [][/\ (pc = "main" /\ rerun = "auto" /\ now - last_refresh < refresh_interval')
            => (~AutoFires /\ last_refresh' = last_refresh)
       /\ AutoFires =>
            /\ rerun # "auto"
            /\ now - last_refresh >= refresh_interval'
            /\ now' - last_refresh' < refresh_interval']_vars

\* the pass started by an auto-refresh went past the sidebar without firing
\* again
NoRefreshStormWitness ==
    /\ pc = "client"
    /\ rerun = "auto"
    /\ auto_refresh
    /\ elapsed # <<>>
    /\ elapsed[1] < refresh_interval
    /\ last_refresh > 0

====
